---- MODULE Spec2Model ----
(***************************************************************************)
(* Model of qtcodes/circuits/base.py: the abstract lattice                 *)
(* (_TopologicalLattice), the stabilizer blueprint (_Stabilizer) and the   *)
(* logical-qubit facade (TopologicalQubit), over a shared QuantumCircuit.  *)
(*                                                                         *)
(* Every Python value is a record with a "tag" field, so that None, lists, *)
(* qubits and registers can be told apart and compared.                    *)
(***************************************************************************)
EXTENDS Integers, Sequences, FiniteSets, TLC

(* ------------------------------ bounds -------------------------------- *)
\* largest size parameter d handed to a construction
MaxD == 3
\* calls made in one behaviour of Spec
MaxCalls == 3
\* calls made in one behaviour of SpecEnt (after the construction in Init)
MaxEntCalls == 3
\* syndrome rounds in a readout string
MaxRounds == 2

(* --------------------------- Python values ---------------------------- *)
NoneV == [tag |-> "None"]
Qubit(r, i) == [tag |-> "Qubit", reg |-> r, idx |-> i]
Register(owner, key, kind, size) ==
    [tag |-> "Register", name |-> <<owner, key>>, kind |-> kind, size |-> size]
List(s) == [tag |-> "list", items |-> s]
IntV(i) == [tag |-> "int", val |-> i]
\* a str, as its sequence of characters
StrV(s) == [tag |-> "str", chars |-> s]

\* bool(v): None and empty containers are falsy, zero is falsy, any other
\* object (a Qubit, a register of the lattice, a class) is truthy.
Bool(v) ==
    CASE v.tag = "None" -> FALSE
      [] v.tag = "list" -> Len(v.items) > 0
      [] v.tag = "int" -> v.val # 0
      [] v.tag = "str" -> Len(v.chars) > 0
      [] OTHER -> TRUE

\* a ^ b on two Python bools
Xor(a, b) == (a /\ ~b) \/ (~a /\ b)

Names == {"a", "b"}
LatticeTypes == {"XZ", "NoData", "Broken"}
Shared == "shared"
Own(n) == IF n = "a" THEN "own_a" ELSE "own_b"
CircIds == {Shared} \cup {Own(n) : n \in Names}

(* ------------------------- circuit operations ------------------------- *)
\* One gate-emission call on a QuantumCircuit.
Op(kind, what, owner, args) ==
    [kind |-> kind, what |-> what, owner |-> owner, args |-> args]
Barrier == Op("barrier", "", "", <<>>)
IdOp(register) == Op("id", "", "", <<register>>)

EmptyCircuit == [regs |-> <<>>, ops |-> <<>>]

(* ------------------- a concrete geometry (subclass) ------------------- *)
\* Dict entries, in insertion order.
Entry(key, val) == [key |-> key, val |-> val]

RECURSIVE Values(_)
Values(d) == IF d = <<>> THEN <<>> ELSE <<Head(d).val>> \o Values(Tail(d))

HasKey(d, k) == \E i \in 1..Len(d) : d[i].key = k
Lookup(d, k) == d[CHOOSE i \in 1..Len(d) : d[i].key = k].val

\* _params_validate_and_generate of the geometry: the size must be positive.
_params_validate_and_generate(lt, d) ==
    IF d < 1 THEN "LatticeConfigurationError" ELSE ""

\* _gen_registers of the geometry: a data group of d qubits and one syndrome
\* group of d-1 qubits per stabilizer type, each mirrored by a classical
\* group; the "NoData" geometry forgets the data group.
_gen_registers(lt, n, d) ==
    LET syn == <<Entry("mz", Register(n, "mz", "q", d - 1)),
                 Entry("mx", Register(n, "mx", "q", d - 1))>>
        csyn == <<Entry("mz", Register(n, "c_mz", "c", d - 1)),
                  Entry("mx", Register(n, "c_mx", "c", d - 1))>>
    IN IF lt = "NoData"
       THEN [q |-> syn, c |-> csyn]
       ELSE [q |-> <<Entry("data", Register(n, "data", "q", d))>> \o syn,
             c |-> <<Entry("data", Register(n, "c_data", "c", d))>> \o csyn]

\* Plaquette i of the geometry: Z-type on odd i, X-type on even i, over the
\* syndrome qubit i-1 and the data qubits i-1 and i.
Plaquette(n, i) ==
    <<Qubit(<<n, IF i % 2 = 1 THEN "mz" ELSE "mx">>, i - 1),
      Qubit(<<n, "data">>, i - 1), Qubit(<<n, "data">>, i)>>
StabilizerOf(i) == IF i % 2 = 1 THEN "ZStabilizer" ELSE "XStabilizer"

\* _gen_qubit_indices_and_stabilizers of the geometry.
_gen_qubit_indices_and_stabilizers(lt, n, d) ==
    IF lt = "Broken"
    THEN [err |-> "LatticeError", qubit_indices |-> <<>>, stabilizers |-> <<>>]
    ELSE [err |-> "",
          qubit_indices |-> [i \in 1..(d - 1) |-> Plaquette(n, i)],
          stabilizers |-> [i \in 1..(d - 1) |-> StabilizerOf(i)]]

(* --------------------------- QuantumCircuit --------------------------- *)
\* circ.add_register(*regs): registers are appended one by one; a register
\* whose name the circuit already holds stops the call with an error.
RECURSIVE add_register(_, _)
add_register(have, regs) ==
    IF regs = <<>> THEN [err |-> "", regs |-> have]
    ELSE IF \E i \in 1..Len(have) : have[i].name = Head(regs).name
         THEN [err |-> "CircuitError", regs |-> have]
         ELSE add_register(Append(have, Head(regs)), Tail(regs))

(* ----------------------------- the state ------------------------------ *)
VARIABLES
    tq,       \* name -> the TopologicalQubit built under that name, if any
    circ,     \* circuit id -> QuantumCircuit (registers and emitted calls)
    last,     \* the call made by the last step and what it did
    seen,     \* the entangle passes so far: blueprint used, calls emitted
    input,    \* the readout string (and type) still to be parsed, or None
    ncalls    \* calls made so far

vars == <<tq, circ, last, seen, input, ncalls>>

NoLattice ==
    [name |-> "", circ |-> "", lattice_type |-> "", params |-> 0,
     qregisters |-> <<>>, cregisters |-> <<>>,
     qubit_indices |-> <<>>, stabilizers |-> <<>>]
NoQubit == [exists |-> FALSE, name |-> "", circ |-> "", lattice |-> NoLattice]

\* A call as the caller sees it: the object and method, the arguments, the
\* error raised ("" for none), the value returned, and the calls it made on
\* the lattice.
Call(obj, cls, name, op, args, err, ret, lcalls) ==
    [obj |-> obj, cls |-> cls, name |-> name, op |-> op, args |-> args,
     err |-> err, ret |-> ret, lcalls |-> lcalls]
NoCall == Call("", "", "", "", <<>>, "", NoneV, <<>>)

\* What a method does: error, return value, calls made on the lattice
\* (method, arguments, value returned) and calls emitted on the circuit.
Out(err, ret, lcalls, ops) ==
    [err |-> err, ret |-> ret, lcalls |-> lcalls, ops |-> ops]
LCall(op, args, ret) == [op |-> op, args |-> args, ret |-> ret]

(* --------------------- _TopologicalLattice.__init__ ------------------- *)
\* Faulty variant of LatticeInit: the registers are added to the circuit before the
\* data group is checked for.
LatticeInit_AddsFirst(lt, d, n, c, have) ==
    LET verr == _params_validate_and_generate(lt, d)
        gen == _gen_registers(lt, n, d)
        add == add_register(have, Values(gen.q) \o Values(gen.c))
        bp == _gen_qubit_indices_and_stabilizers(lt, n, d)
    IN IF verr # ""
       THEN [err |-> verr, regs |-> have, lattice |-> NoLattice]
       ELSE IF add.err # ""
       THEN [err |-> add.err, regs |-> add.regs, lattice |-> NoLattice]
       ELSE IF ~HasKey(gen.q, "data")
       THEN [err |-> "AssertionError", regs |-> add.regs, lattice |-> NoLattice]
       ELSE IF bp.err # ""
       THEN [err |-> bp.err, regs |-> add.regs, lattice |-> NoLattice]
       ELSE [err |-> "", regs |-> add.regs,
             lattice |-> [name |-> n, circ |-> c, lattice_type |-> lt,
                          params |-> d,
                          qregisters |-> gen.q, cregisters |-> gen.c,
                          qubit_indices |-> bp.qubit_indices,
                          stabilizers |-> bp.stabilizers]]

\* The outcome of lattice_type(params, name, circ) against the registers
\* `have` that circ holds: the error raised (if any), the registers circ
\* holds afterwards and the lattice obtained.
LatticeInit(lt, d, n, c, have) ==
    LET verr == _params_validate_and_generate(lt, d)
        gen == _gen_registers(lt, n, d)
        add == add_register(have, Values(gen.q) \o Values(gen.c))
        bp == _gen_qubit_indices_and_stabilizers(lt, n, d)
    IN IF verr # ""
       THEN [err |-> verr, regs |-> have, lattice |-> NoLattice]
       ELSE IF ~HasKey(gen.q, "data")
       THEN [err |-> "AssertionError", regs |-> have, lattice |-> NoLattice]
       ELSE IF add.err # ""
       THEN [err |-> add.err, regs |-> add.regs, lattice |-> NoLattice]
       ELSE IF bp.err # ""
       THEN [err |-> bp.err, regs |-> add.regs, lattice |-> NoLattice]
       ELSE [err |-> "", regs |-> add.regs,
             lattice |-> [name |-> n, circ |-> c, lattice_type |-> lt,
                          params |-> d,
                          qregisters |-> gen.q, cregisters |-> gen.c,
                          qubit_indices |-> bp.qubit_indices,
                          stabilizers |-> bp.stabilizers]]

(* ------------------------ readout strings ----------------------------- *)
Bits == {"0", "1"}
BitOf(ch) == IF ch = "1" THEN 1 ELSE 0
ToBits(token) == [p \in 1..Len(token) |-> BitOf(token[p])]

\* All bit strings of length len.
RECURSIVE BitStrings(_)
BitStrings(len) ==
    IF len = 0 THEN {<<>>}
    ELSE {<<b>> \o t : b \in Bits, t \in BitStrings(len - 1)}

\* The tokens written out as one space-separated string.
RECURSIVE Join(_)
Join(tokens) ==
    IF tokens = <<>> THEN <<>>
    ELSE IF Len(tokens) = 1 THEN Head(tokens)
    ELSE Head(tokens) \o <<" ">> \o Join(Tail(tokens))

\* readout_string.split(): the maximal runs of non-blank characters.
RECURSIVE SplitAcc(_, _, _)
SplitAcc(s, cur, acc) ==
    IF s = <<>> THEN (IF cur = <<>> THEN acc ELSE Append(acc, cur))
    ELSE IF Head(s) = " "
         THEN SplitAcc(Tail(s), <<>>, IF cur = <<>> THEN acc ELSE Append(acc, cur))
         ELSE SplitAcc(Tail(s), Append(cur, Head(s)), acc)
Split(s) == SplitAcc(s, <<>>, <<>>)

ReadoutType(t) == [tag |-> "readout_type", val |-> t]
SyndromeTypes == <<"mz", "mx">>

\* The geometry's index mapping: syndrome qubit idx of a type -> (row, col).
SynCoord(type, idx) ==
    [row |-> idx, col |-> idx + (IF type = "mx" THEN 1 ELSE 0)]

\* A token is written most significant first: the character at position p
\* of a token of length len belongs to qubit len - p.
QubitAt(len, p) == len - p

\* Faulty variant of XorBit: the two bits are or-ed.
XorBit_Or(a, b) == IF a + b > 0 THEN 1 ELSE 0

\* a ^ b on two bits
XorBit(a, b) == (a + b) % 2

\* Parity of bits[1..k].
RECURSIVE Parity(_, _)
Parity(bits, k) == IF k = 0 THEN 0 ELSE XorBit(bits[k], Parity(bits, k - 1))

\* The synthetic final round read off a full data readout: syndrome qubit idx
\* checks the data qubits idx and idx + 1.
SyntheticRound(data, nSyn) ==
    LET nData == Len(data)
        dbit(q) == data[nData - q]
    IN [p \in 1..nSyn |->
           XorBit(dbit(QubitAt(nSyn, p)), dbit(QubitAt(nSyn, p) + 1))]

\* The hits between two consecutive rounds: one event per changed bit.
RECURSIVE Hits(_, _, _, _, _)
Hits(type, time, newer, older, p) ==
    IF p > Len(newer) THEN <<>>
    ELSE (IF XorBit(newer[p], older[p]) = 1
          THEN <<[time |-> time,
                  row |-> SynCoord(type, QubitAt(Len(newer), p)).row,
                  col |-> SynCoord(type, QubitAt(Len(newer), p)).col]>>
          ELSE <<>>)
         \o Hits(type, time, newer, older, p + 1)

\* The events of one syndrome type: rounds[1] is the most recent round; the
\* pairs are walked from the oldest towards the present, pair j (rounds j
\* and j + 1) carrying the time index j - 1.
RECURSIVE Events(_, _, _)
Events(type, rounds, j) ==
    IF j < 1 THEN <<>>
    ELSE Hits(type, j - 1, rounds[j], rounds[j + 1], 1)
         \o Events(type, rounds, j - 1)

ParseError == [err |-> "ReadoutParseError", ret |-> NoneV]

\* _TopologicalLattice.parse_readout of the geometry.
ParseReadout(self, readout_string, readout_type) ==
    LET tokens == Split(readout_string.chars)
        nData == Lookup(self.qregisters, "data").size
        nSyn == Lookup(self.qregisters, "mz").size
    IN IF tokens = <<>> THEN ParseError
       ELSE
       LET first == tokens[1]
           syn == Tail(tokens)
           kind == IF readout_type = NoneV
                   THEN (IF Len(first) = 1 THEN "logical"
                         ELSE IF Len(first) = nData THEN "lattice" ELSE "bad")
                   ELSE IF readout_type.val = "logical"
                   THEN (IF Len(first) = 1 THEN "logical" ELSE "bad")
                   ELSE (IF Len(first) = nData THEN "lattice" ELSE "bad")
           nTypes == Len(SyndromeTypes)
           k == Len(syn) \div nTypes
           rounds(t) ==
               (IF kind = "lattice"
                THEN <<SyntheticRound(ToBits(first), nSyn)>> ELSE <<>>)
               \o [r \in 1..k |-> ToBits(syn[(r - 1) * nTypes + t])]
           logical == IF kind = "logical" THEN BitOf(first[1])
                      ELSE Parity(ToBits(first), Len(first))
       IN IF \/ kind = "bad"
             \/ Len(syn) % nTypes # 0
             \/ \E i \in 1..Len(syn) : Len(syn[i]) # nSyn
          THEN ParseError
          ELSE [err |-> "",
                ret |-> [tag |-> "tuple", logical_readout |-> logical,
                         syndromes |->
                            [t \in 1..nTypes |->
                                Events(SyndromeTypes[t], rounds(t),
                                       Len(rounds(t)) - 1)]]]

(* ----------------- _TopologicalLattice: the operations ---------------- *)
\* A call of an operation the geometry implements: parse_readout computes
\* and emits nothing, every other one returns None and emits its gates,
\* taken here as one call on the lattice's circuit.
LatticeMethod(self, m, args) ==
    IF m = "parse_readout"
    THEN LET r == ParseReadout(self, args[1], args[2])
         IN [err |-> r.err, ret |-> r.ret, ops |-> <<>>]
    ELSE [err |-> "", ret |-> NoneV, ops |-> <<Op("lattice", m, self.name, args)>>]

\* stabilizer_cls(self.circ, qubits).entangle(): the plaquette's gates,
\* taken as one call on the circuit.
StabilizerEntangle(stabilizer_cls, qubits) ==
    Op("entangle", stabilizer_cls, "", qubits)

\* Faulty variant of EntangleLoop: the barrier comes once, after the loop.
RECURSIVE EntangleLoop_BarrierAtEnd(_, _, _)
EntangleLoop_BarrierAtEnd(i, qubit_indices, stabilizers) ==
    IF i > Len(stabilizers) THEN [err |-> "", ops |-> <<Barrier>>]
    ELSE IF i > Len(qubit_indices) THEN [err |-> "IndexError", ops |-> <<>>]
    ELSE LET rest == EntangleLoop_BarrierAtEnd(i + 1, qubit_indices, stabilizers)
         IN [err |-> rest.err,
             ops |-> <<StabilizerEntangle(stabilizers[i], qubit_indices[i])>>
                     \o rest.ops]

\* for i, stabilizer_cls in enumerate(stabilizers): ... qubit_indices[i] ...
RECURSIVE EntangleLoop(_, _, _)
EntangleLoop(i, qubit_indices, stabilizers) ==
    IF i > Len(stabilizers) THEN [err |-> "", ops |-> <<>>]
    ELSE IF i > Len(qubit_indices) THEN [err |-> "IndexError", ops |-> <<>>]
    ELSE LET rest == EntangleLoop(i + 1, qubit_indices, stabilizers)
         IN [err |-> rest.err,
             ops |-> <<StabilizerEntangle(stabilizers[i], qubit_indices[i]),
                       Barrier>> \o rest.ops]

\* The list an entangle call works on: the argument if it is truthy, the
\* stored one otherwise.
InUse(arg, stored) == IF Bool(arg) THEN arg.items ELSE stored

\* Faulty variant of entangle: the first pass uses the stored blueprint up, and a
\* later pass finds it empty.
entangle_Consuming(self, qubit_indices, stabilizers) ==
    LET r == EntangleLoop(1,
                 InUse(qubit_indices, IF seen = {} THEN self.qubit_indices ELSE <<>>),
                 InUse(stabilizers, IF seen = {} THEN self.stabilizers ELSE <<>>))
    IN Out(r.err, NoneV, <<>>, r.ops)

\* _TopologicalLattice.entangle(qubit_indices, stabilizers)
entangle(self, qubit_indices, stabilizers) ==
    LET r == EntangleLoop(1, InUse(qubit_indices, self.qubit_indices),
                          InUse(stabilizers, self.stabilizers))
    IN Out(r.err, NoneV, <<>>, r.ops)

(* ------------------------- TopologicalQubit --------------------------- *)
\* self.lattice.m(*args), the value dropped
Forward(self, m, args) ==
    LET r == LatticeMethod(self.lattice, m, args)
    IN Out(r.err, NoneV, <<LCall(m, args, r.ret)>>, r.ops)

RECURSIVE IdEach(_)
IdEach(registers) ==
    IF registers = <<>> THEN <<>>
    ELSE <<IdOp(Head(registers))>> \o IdEach(Tail(registers))

\* Faulty variant of id: the identity goes on every quantum register of the circuit.
id_WholeCircuit(self) ==
    LET regs == circ[self.circ].regs
        q == SelectSeq(regs, LAMBDA r : r.kind = "q")
    IN Out("", NoneV, <<>>, IdEach(q) \o <<Barrier>>)

id(self) == Out("", NoneV, <<>>, IdEach(Values(self.lattice.qregisters)) \o <<Barrier>>)

id_data(self) ==
    Out("", NoneV, <<>>, <<IdOp(Lookup(self.lattice.qregisters, "data")), Barrier>>)

\* Faulty variant of reset_x: the call goes to reset_z.
reset_x_CallsResetZ(self) == Forward(self, "reset_z", <<>>)

reset_x(self) == Forward(self, "reset_x", <<>>)
reset_z(self) == Forward(self, "reset_z", <<>>)
x(self) == Forward(self, "x", <<>>)
z(self) == Forward(self, "z", <<>>)
x_c_if(self, classical, val) == Forward(self, "x_c_if", <<classical, val>>)
z_c_if(self, classical, val) == Forward(self, "z_c_if", <<classical, val>>)

\* Faulty variant of cx: a call with both arguments is let through.
cx_AcceptsBoth(self, control, target) ==
    IF ~(Bool(control) \/ Bool(target))
    THEN Out("ValueError", NoneV, <<>>, <<>>)
    ELSE Forward(self, "cx", <<control, target>>)

\* Faulty variant of cx: the lattice is called first, the arguments checked after.
cx_ForwardsBeforeCheck(self, control, target) ==
    LET f == Forward(self, "cx", <<control, target>>)
    IN IF ~Xor(Bool(control), Bool(target))
       THEN Out("ValueError", NoneV, f.lcalls, f.ops)
       ELSE f

cx(self, control, target) ==
    IF ~Xor(Bool(control), Bool(target))
    THEN Out("ValueError", NoneV, <<>>, <<>>)
    ELSE Forward(self, "cx", <<control, target>>)

readout_x(self, readout_creg) == Forward(self, "readout_x", <<readout_creg>>)
readout_z(self, readout_creg) == Forward(self, "readout_z", <<readout_creg>>)
lattice_readout_x(self) == Forward(self, "lattice_readout_x", <<>>)
lattice_readout_z(self) == Forward(self, "lattice_readout_z", <<>>)

\* return self.lattice.parse_readout(readout_string, readout_type)
parse_readout(self, readout_string, readout_type) ==
    LET r == LatticeMethod(self.lattice, "parse_readout",
                           <<readout_string, readout_type>>)
    IN Out(r.err, r.ret,
           <<LCall("parse_readout", <<readout_string, readout_type>>, r.ret)>>,
           r.ops)

\* The methods the class TopologicalQubit defines and the model calls.
FacadeMethods ==
    {"id", "id_data", "reset_x", "reset_z", "x", "z", "x_c_if", "z_c_if",
     "cx", "readout_x", "readout_z", "lattice_readout_x", "lattice_readout_z",
     "parse_readout"}

\* getattr(self, m)(*args)
Invoke(self, m, args) ==
    CASE m = "id" -> id(self)
      [] m = "id_data" -> id_data(self)
      [] m = "reset_x" -> reset_x(self)
      [] m = "reset_z" -> reset_z(self)
      [] m = "x" -> x(self)
      [] m = "z" -> z(self)
      [] m = "x_c_if" -> x_c_if(self, args[1], args[2])
      [] m = "z_c_if" -> z_c_if(self, args[1], args[2])
      [] m = "cx" -> cx(self, args[1], args[2])
      [] m = "readout_x" -> readout_x(self, args[1])
      [] m = "readout_z" -> readout_z(self, args[1])
      [] m = "lattice_readout_x" -> lattice_readout_x(self)
      [] m = "lattice_readout_z" -> lattice_readout_z(self)
      [] m = "parse_readout" -> parse_readout(self, args[1], args[2])
      [] OTHER -> Out("AttributeError", NoneV, <<>>, <<>>)

(* ----------------------- TopologicalQubit.__init__ -------------------- *)
\* TopologicalQubit(params, name, circ) for a subclass whose lattice_type is
\* lt; circArg is None (a new QuantumCircuit is made) or the shared circuit.
Construct(n, lt, d, circArg) ==
    LET c == IF circArg = NoneV THEN Own(n) ELSE circArg.id
        have == IF circArg = NoneV THEN <<>> ELSE circ[c].regs
        r == LatticeInit(lt, d, n, c, have)
    IN /\ ~tq[n].exists
       /\ IF circArg = NoneV
          THEN \* the fresh circuit lives on only in the object obtained
               circ' = [circ EXCEPT ![c] =
                           IF r.err = "" THEN [regs |-> r.regs, ops |-> <<>>]
                           ELSE EmptyCircuit]
          ELSE circ' = [circ EXCEPT ![c].regs = r.regs]
       /\ tq' = IF r.err = ""
                THEN [tq EXCEPT ![n] = [exists |-> TRUE, name |-> n,
                                        circ |-> c, lattice |-> r.lattice]]
                ELSE tq
       /\ last' = Call("TopologicalQubit", lt, n, "__init__",
                       <<IntV(d), circArg>>, r.err, NoneV, <<>>)
       /\ ncalls' = ncalls + 1
       /\ UNCHANGED seen

(* ------------------------------ actions ------------------------------- *)
\* tq.m(*args) on the logical qubit built under the name n
FacadeCall(n, m, args) ==
    LET self == tq[n]
        out == Invoke(self, m, args)
    IN /\ self.exists
       /\ circ' = [circ EXCEPT ![self.circ].ops = @ \o out.ops]
       /\ last' = Call("TopologicalQubit", self.lattice.lattice_type, n, m,
                       args, out.err, out.ret, out.lcalls)
       /\ ncalls' = ncalls + 1
       /\ UNCHANGED <<tq, seen>>

\* tq.lattice.entangle(qubit_indices, stabilizers), as stabilize() calls it
LatticeEntangle(n, qubit_indices, stabilizers) ==
    LET self == tq[n].lattice
        out == entangle(self, qubit_indices, stabilizers)
    IN /\ tq[n].exists
       /\ circ' = [circ EXCEPT ![self.circ].ops = @ \o out.ops]
       /\ last' = Call("_TopologicalLattice", self.lattice_type, n, "entangle",
                       <<qubit_indices, stabilizers>>, out.err, out.ret,
                       out.lcalls)
       /\ seen' = seen \cup
                    {[qubit_indices |-> InUse(qubit_indices, self.qubit_indices),
                      stabilizers |-> InUse(stabilizers, self.stabilizers),
                      ops |-> out.ops]}
       /\ ncalls' = ncalls + 1
       /\ UNCHANGED tq

(* ------------------------------ inputs -------------------------------- *)
ExtQubits == {Qubit(<<"ext", "q">>, 0)}
Classical == Register("ext", "c", "c", 1)
CircuitArgs == {NoneV, [tag |-> "QuantumCircuit", id |-> Shared]}

\* The operations of the lattice (section 4.2 of the specification).
Section42Ops ==
    {"entangle", "reset_x", "reset_z", "x", "z", "x_c_if", "z_c_if", "cx",
     "readout_x", "readout_z", "lattice_readout_x", "lattice_readout_z",
     "parse_readout"}

ParseSamples ==
    {<<StrV(Join(<<<<"0">>, <<"1", "0">>, <<"0", "0">>,
                   <<"0", "1">>, <<"0", "0">>>>)), NoneV>>,
     <<StrV(Join(<<<<"1", "1">>, <<"1">>, <<"0">>>>)), ReadoutType("lattice")>>}

ArgsOf(m) ==
    CASE m \in {"x_c_if", "z_c_if"} -> {<<Classical, IntV(1)>>}
      [] m = "cx" -> {<<c, t>> : c \in {NoneV} \cup ExtQubits,
                                 t \in {NoneV} \cup ExtQubits}
      [] m \in {"readout_x", "readout_z"} -> {<<NoneV>>, <<Classical>>}
      [] m = "parse_readout" -> ParseSamples
      [] m = "entangle" -> {<<NoneV, NoneV>>}
      [] OTHER -> {<<>>}

\* Overrides handed to entangle: nothing, an empty list, lists of one and of
\* two plaquettes (not the stored ones).
QubitIndicesArgs(n) ==
    {NoneV, List(<<>>), List(<<Plaquette(n, 2)>>),
     List(<<Plaquette(n, 2), Plaquette(n, 1)>>)}
StabilizersArgs ==
    {NoneV, List(<<>>), List(<<"XStabilizer">>),
     List(<<"XStabilizer", "ZStabilizer">>)}

(* --------------------------- specifications --------------------------- *)
Init ==
    /\ tq = [n \in Names |-> NoQubit]
    /\ circ = [c \in CircIds |-> EmptyCircuit]
    /\ last = NoCall
    /\ seen = {}
    /\ input = NoneV
    /\ ncalls = 0

Next ==
    /\ ncalls < MaxCalls
    /\ UNCHANGED input
    /\ \/ \E n \in Names, lt \in LatticeTypes, d \in 0..MaxD,
             circArg \in CircuitArgs : Construct(n, lt, d, circArg)
       \/ \E n \in Names, m \in FacadeMethods \cup Section42Ops :
             \E args \in ArgsOf(m) : FacadeCall(n, m, args)
       \/ \E n \in Names : LatticeEntangle(n, NoneV, NoneV)

Spec == Init /\ [][Next]_vars

\* The state right after TopologicalQubit(d, n, circ) succeeded on an empty
\* shared circuit.
Built(n, d) ==
    LET r == LatticeInit("XZ", d, n, Shared, <<>>)
    IN /\ tq = [m \in Names |->
                   IF m = n
                   THEN [exists |-> TRUE, name |-> n, circ |-> Shared,
                         lattice |-> r.lattice]
                   ELSE NoQubit]
       /\ circ = [c \in CircIds |->
                     IF c = Shared THEN [regs |-> r.regs, ops |-> <<>>]
                     ELSE EmptyCircuit]
       /\ last = Call("TopologicalQubit", "XZ", n, "__init__",
                      <<IntV(d), [tag |-> "QuantumCircuit", id |-> Shared]>>,
                      "", NoneV, <<>>)
       /\ seen = {}
       /\ ncalls = 0

\* Entangle passes on one lattice, with other operations in between.
InitEnt == \E d \in 1..MaxD : Built("a", d) /\ input = NoneV

NextEnt ==
    /\ ncalls < MaxEntCalls
    /\ UNCHANGED input
    /\ \/ \E qi \in QubitIndicesArgs("a"), st \in StabilizersArgs :
             LatticeEntangle("a", qi, st)
       \/ \E m \in {"x", "id"} : FacadeCall("a", m, <<>>)

SpecEnt == InitEnt /\ [][NextEnt]_vars

\* The readout strings tried: a first token (logical bit, one of three full
\* data readouts, or one character too long) and up to MaxRounds rounds of a Z and an X
\* syndrome token, most recent round first; plus two malformed tails.
XTokenSamples(len) == {[p \in 1..len |-> "0"], [p \in 1..len |-> "1"]}

RECURSIVE RoundLists(_, _)
RoundLists(len, k) ==
    IF k = 0 THEN {<<>>}
    ELSE {<<zt, xt>> \o rest :
             zt \in BitStrings(len), xt \in XTokenSamples(len),
             rest \in RoundLists(len, k - 1)}

ReadoutStrings(d) ==
    LET firsts == BitStrings(1)
                  \cup {[p \in 1..d |-> "1"],
                        [p \in 1..d |-> IF p = 1 THEN "1" ELSE "0"],
                        [p \in 1..d |-> IF p = d THEN "1" ELSE "0"]}
                  \cup {[p \in 1..(d + 1) |-> "1"]}
        tails == (UNION {RoundLists(d - 1, k) : k \in 0..MaxRounds})
                 \cup {<<[p \in 1..(d - 1) |-> "1"]>>,
                       <<[p \in 1..d |-> "0"], [p \in 1..d |-> "0"]>>}
    IN {StrV(Join(<<f>> \o t)) : f \in firsts, t \in tails}

ReadoutTypes == {NoneV, ReadoutType("logical"), ReadoutType("lattice")}

InitParse ==
    \E d \in 2..MaxD :
       /\ Built("a", d)
       /\ input \in {List(<<s, t>>) : s \in ReadoutStrings(d), t \in ReadoutTypes}

Parse ==
    /\ input # NoneV
    /\ FacadeCall("a", "parse_readout", input.items)
    /\ input' = NoneV

NextParse == Parse

SpecParse == InitParse /\ [][NextParse]_vars
(* ---------------------------- properties ------------------------------ *)
\* An argument was supplied: anything but the default None.
Supplied(v) == v # NoneV

\* The step just taken was a call of op on an object of kind obj.
Called(obj, op) ==
    /\ ncalls' = ncalls + 1
    /\ last'.obj = obj
    /\ last'.op = op

\* The calls a step appended to the circuit c.
Appended(c) == SubSeq(circ'[c].ops, Len(circ[c].ops) + 1, Len(circ'[c].ops))
AppendOnly(c) ==
    /\ Len(circ'[c].ops) >= Len(circ[c].ops)
    /\ SubSeq(circ'[c].ops, 1, Len(circ[c].ops)) = circ[c].ops
    /\ circ'[c].regs = circ[c].regs

\* C1: TopologicalQubit.cx with neither or with both of control and target
\* fails with ValueError and calls nothing; with exactly one of them it does
\* not fail and calls lattice.cx(control, target) exactly once with the same
\* two arguments.
C1_CxExactlyOne ==
    (last.obj = "TopologicalQubit" /\ last.op = "cx") =>
        IF Supplied(last.args[1]) = Supplied(last.args[2])
        THEN last.err = "ValueError" /\ last.lcalls = <<>>
        ELSE /\ last.err = ""
             /\ Len(last.lcalls) = 1
             /\ last.lcalls[1].op = "cx"
             /\ last.lcalls[1].args = last.args

C1_Witness ==
    /\ last.obj = "TopologicalQubit" /\ last.op = "cx"
    /\ Supplied(last.args[1]) /\ Supplied(last.args[2])
    /\ last.err = "ValueError"

\* C2: a cx call that fails its exactly-one-of check has changed nothing:
\* no call on the lattice, no call appended to any circuit, every logical
\* qubit (registers, qubit_indices, stabilizers) as before the call.
C2_FailedCxMutatesNothing ==
    [][(Called("TopologicalQubit", "cx") /\ last'.err = "ValueError") =>
          /\ last'.lcalls = <<>>
          /\ circ' = circ
          /\ tq' = tq]_vars

C2_Witness ==
    /\ last.obj = "TopologicalQubit" /\ last.op = "cx"
    /\ last.err = "ValueError"
    /\ circ[tq[last.name].circ].ops # <<>>

\* C3: a construction whose geometry creates no "data" quantum register
\* fails with a LatticeError, and no logical qubit exists whose lattice has no
\* data group.
C3_MissingDataIsLatticeError ==
    /\ (/\ last.op = "__init__"
        /\ _params_validate_and_generate(last.cls, last.args[1].val) = ""
        /\ ~HasKey(_gen_registers(last.cls, last.name, last.args[1].val).q, "data"))
       => last.err = "LatticeError"
    /\ \A n \in Names :
          tq[n].exists => HasKey(tq[n].lattice.qregisters, "data")

\* The pass over the paired entries of qi and st, as it must show on the
\* circuit c: entangle_1, barrier, entangle_2, barrier, ... in index order.
PassAppended(c, qi, st) ==
    LET k == IF Len(qi) < Len(st) THEN Len(qi) ELSE Len(st)
        seg == Appended(c)
    IN /\ AppendOnly(c)
       /\ Len(seg) = 2 * k
       /\ \A i \in 1..k :
             /\ seg[2 * i - 1] = StabilizerEntangle(st[i], qi[i])
             /\ seg[2 * i] = Barrier

\* C4: every entangle call walks the blueprint in use (the argument where one
\* is in use, the stored list otherwise) entry by entry in index order: entry
\* i goes to the stabilizer paired with it at index i, and one barrier follows
\* each entry before the next is touched. The entries are the pairs of a
\* qubit list and a stabilizer at the same index; with lists of equal length
\* the call does not fail and emits one barrier per entry, and it fails
\* (IndexError, after the paired entries) only if the stabilizers outnumber
\* the qubit lists.
C4_EntangleInBlueprintOrder ==
    [][Called("_TopologicalLattice", "entangle") =>
          LET self == tq[last'.name].lattice
              qi == InUse(last'.args[1], self.qubit_indices)
              st == InUse(last'.args[2], self.stabilizers)
          IN /\ PassAppended(self.circ, qi, st)
             /\ (last'.err = "IndexError") = (Len(st) > Len(qi))
             /\ last'.err \in {"", "IndexError"}
             /\ \A c \in CircIds \ {self.circ} : circ'[c] = circ[c]]_vars

C4_Witness ==
    /\ last.obj = "_TopologicalLattice" /\ last.op = "entangle"
    /\ last.err = ""
    /\ Len(circ[Shared].ops) >= 4
    /\ LET ops == circ[Shared].ops
           len == Len(ops)
       IN /\ ops[len - 3].what = "ZStabilizer" /\ ops[len - 2] = Barrier
          /\ ops[len - 1].what = "XStabilizer" /\ ops[len] = Barrier

\* The list the caller handed over, or the stored one if none was handed.
Given(arg, stored) == IF Supplied(arg) THEN arg.items ELSE stored

\* C5: an explicit qubit_indices or stabilizers argument (any list, the empty
\* one included) is the one the call uses, and the stored lists are the same
\* after the call as before.
C5_ExplicitArgumentUsed ==
    [][Called("_TopologicalLattice", "entangle") =>
          LET self == tq[last'.name].lattice
          IN /\ PassAppended(self.circ,
                             Given(last'.args[1], self.qubit_indices),
                             Given(last'.args[2], self.stabilizers))
             /\ tq' = tq]_vars

ForwardedOnce ==
    LET self == tq[last'.name]
    IN /\ Len(last'.lcalls) = 1
       /\ last'.lcalls[1].op = last'.op
       /\ last'.lcalls[1].args = last'.args
       /\ last'.ret = last'.lcalls[1].ret
       /\ AppendOnly(self.circ)
       /\ Appended(self.circ) =
             LatticeMethod(self.lattice, last'.op, last'.args).ops
       /\ \A c \in CircIds \ {self.circ} : circ'[c] = circ[c]
       /\ tq' = tq

FacadeStep(ops) ==
    /\ ncalls' = ncalls + 1
    /\ last'.obj = "TopologicalQubit"
    /\ last'.op \in ops

\* C7 as stated: every operation of section 4.2, entangle included, called on
\* the facade goes to the lattice once, unchanged (cx after its check).
C7_ForwardsEverySection42Op ==
    [][(FacadeStep(Section42Ops)
        /\ ~(last'.op = "cx" /\ last'.err = "ValueError"))
          => ForwardedOnce]_vars

\* C7 as amended: every operation of section 4.2 but entangle, called on the
\* facade, goes to the lattice once with the same arguments (cx after its
\* check), the facade handing back the lattice's value and emitting nothing
\* of its own; the facade has no entangle method, so that call fails with an
\* AttributeError, reaches no lattice and leaves everything as it was.
C7_ForwardsAllButEntangle ==
    [][/\ (FacadeStep(Section42Ops \ {"entangle"})
           /\ ~(last'.op = "cx" /\ last'.err = "ValueError"))
             => ForwardedOnce
       /\ FacadeStep({"entangle"})
             => /\ last'.err = "AttributeError"
                /\ last'.lcalls = <<>>
                /\ circ' = circ
                /\ tq' = tq]_vars

C7_Witness ==
    /\ last.obj = "TopologicalQubit" /\ last.op = "parse_readout"
    /\ last.err = ""
    /\ last.ret.tag = "tuple"
    /\ Len(last.ret.syndromes[1]) > 0
    /\ last.lcalls[1].ret = last.ret

\* C8: two consecutive syndrome tokens of one type that differ in h positions
\* give h events for that pair, each at the coordinate of a differing bit and
\* carrying the pair's time index; equal tokens give none.
C8_XorHitCounting ==
    (last.op = "parse_readout" /\ last.err = "") =>
        LET tokens == Split(last.args[1].chars)
            first == tokens[1]
            syn == Tail(tokens)
            nTypes == Len(SyndromeTypes)
            k == Len(syn) \div nTypes
            offset == IF (IF last.args[2] = NoneV THEN Len(first) # 1
                          ELSE last.args[2].val = "lattice")
                      THEN 1 ELSE 0
        IN \A t \in 1..nTypes : \A j \in 1..(k - 1) :
              LET newer == syn[(j - 1) * nTypes + t]
                  older == syn[j * nTypes + t]
                  len == Len(newer)
                  differ == {p \in 1..len : newer[p] # older[p]}
                  events == last.ret.syndromes[t]
                  mine == {i \in 1..Len(events) :
                              events[i].time = j - 1 + offset}
              IN /\ Cardinality(mine) = Cardinality(differ)
                 /\ {<<events[i].row, events[i].col>> : i \in mine}
                    = {<<SynCoord(SyndromeTypes[t], len - p).row,
                         SynCoord(SyndromeTypes[t], len - p).col>> :
                          p \in differ}

C8_Witness ==
    /\ last.op = "parse_readout" /\ last.err = ""
    /\ Len(Split(last.args[1].chars)) = 5
    /\ Len(last.ret.syndromes[1]) = 2
    /\ Len(last.ret.syndromes[2]) = 0

\* C9: id() emits one identity on every quantum register of its own lattice
\* (data and every syndrome group, none of another logical qubit on the same
\* circuit) and then one barrier; id_data() emits one identity on the data
\* register and then one barrier; registers and blueprint stay as they were.
C9_IdentityHooks ==
    [][FacadeStep({"id", "id_data"}) =>
          LET n == last'.name
              c == tq[n].circ
              regs == circ[c].regs
              owned == {regs[i] : i \in {j \in 1..Len(regs) :
                           regs[j].name[1] = n /\ regs[j].kind = "q"}}
              targets == IF last'.op = "id" THEN owned
                         ELSE {r \in owned : r.name[2] = "data"}
              seg == Appended(c)
          IN /\ last'.err = ""
             /\ AppendOnly(c)
             /\ Len(seg) = Cardinality(targets) + 1
             /\ seg[Len(seg)] = Barrier
             /\ {seg[i] : i \in 1..(Len(seg) - 1)} = {IdOp(r) : r \in targets}
             /\ \A c2 \in CircIds \ {c} : circ'[c2] = circ[c2]
             /\ tq' = tq]_vars

C9_Witness ==
    /\ last.obj = "TopologicalQubit" /\ last.op = "id"
    /\ \A n \in Names : tq[n].exists /\ tq[n].circ = Shared
    /\ Len(circ[Shared].ops) = 4

\* C10: a construction runs validate, generate registers, check the data
\* group, add the registers, derive the blueprint, in this order: the shared
\* circuit's registers change only by a construction that passed validation
\* and the data check appending its own registers at the end, so a
\* construction failing validation or the data check adds none (and
\* validation fails before the data check, the blueprint after the adding).
C10_FailedConstructionAddsNothing ==
    [][LET lt == last'.cls
           d == last'.args[1].val
           onShared == last'.args[2] # NoneV
           gen == _gen_registers(lt, last'.name, d)
           passed == /\ _params_validate_and_generate(lt, d) = ""
                     /\ HasKey(gen.q, "data")
           old == circ[Shared].regs
           new == circ'[Shared].regs
       IN /\ new # old =>
                /\ Called("TopologicalQubit", "__init__")
                /\ onShared /\ passed
                /\ new = old \o Values(gen.q) \o Values(gen.c)
          /\ Called("TopologicalQubit", "__init__") =>
                /\ ~passed =>
                      /\ last'.err \in {"LatticeConfigurationError",
                                        "AssertionError"}
                      /\ (d < 1) = (last'.err = "LatticeConfigurationError")
                      /\ tq' = tq
                /\ (passed /\ onShared /\ lt = "Broken"
                    /\ last'.err = "LatticeError") => new # old]_vars

C10_Witness ==
    /\ last.op = "__init__" /\ last.err = "AssertionError"
    /\ last.args[2] # NoneV
    /\ Len(circ[Shared].regs) > 0
====
